---------------------------- MODULE Spec2Model ----------------------------
(***************************************************************************)
(* Model of list_markets.py: PolymarketClient.fetch_markets,               *)
(* process_events, display_events and main.                                *)
(*                                                                         *)
(* JSON values are records [t, s, n]: t is the Python type of the value,   *)
(* s its text when it is a str, n its value when it is a number.  A key    *)
(* that a mapping lacks is the value Absent (dict.get answers its default  *)
(* for it).  Volumes are whole numbers; the texts the model parses as      *)
(* numbers are strings of decimal digits.                                  *)
(***************************************************************************)
EXTENDS Integers, Sequences, FiniteSets, TLC

----------------------------------------------------------------------------
(* Python values *)

Absent == [t |-> "absent", s |-> "", n |-> 0]
None == [t |-> "null", s |-> "", n |-> 0]
Str(x) == [t |-> "str", s |-> x, n |-> 0]
Num(k) == [t |-> "num", s |-> "", n |-> k]
ListVal == [t |-> "list", s |-> "", n |-> 0]

\* dict.get(key) with no default: a missing key reads as None
Get(v) == IF v.t = "absent" THEN None ELSE v

\* dict.get(key, default)
GetOr(v, default) == IF v.t = "absent" THEN default ELSE v

\* Python truth value of a value
Truthy(v) ==
    CASE v.t = "str" -> v.s # ""
      [] v.t = "num" -> v.n # 0
      [] v.t = "list" -> TRUE
      [] OTHER -> FALSE

Digits == {"0", "1", "2", "3", "4", "5", "6", "7", "8", "9"}

Ch(s, i) == SubSeq(s, i, i)

DigitVal(c) ==
    CASE c = "0" -> 0 [] c = "1" -> 1 [] c = "2" -> 2 [] c = "3" -> 3
      [] c = "4" -> 4 [] c = "5" -> 5 [] c = "6" -> 6 [] c = "7" -> 7
      [] c = "8" -> 8 [] c = "9" -> 9

AllDigits(s) == \A k \in 1..Len(s) : Ch(s, k) \in Digits

RECURSIVE DecimalValue(_)
DecimalValue(s) ==
    IF s = "" THEN 0
    ELSE 10 * DecimalValue(SubSeq(s, 1, Len(s) - 1)) + DigitVal(Ch(s, Len(s)))

\* float(x): the number, or the exception float raises
Float(v) ==
    CASE v.t = "num" -> [exc |-> "", val |-> v.n]
      [] v.t = "str" ->
            IF v.s # "" /\ AllDigits(v.s)
            THEN [exc |-> "", val |-> DecimalValue(v.s)]
            ELSE [exc |-> "ValueError", val |-> 0]
      [] OTHER -> [exc |-> "TypeError", val |-> 0]

\* an except clause that names ValueError alone
ValueErrorOnly == {"ValueError"}

\* the exceptions `except (ValueError, TypeError)` catches
VolumeExcept == {"ValueError", "TypeError"}

\* try: float(x.get(key, 0)) except (ValueError, TypeError): 0.0
\* Answers the volume, or the exception that escapes the try statement.
ParseVolume(v) ==
    LET r == Float(GetOr(v, Num(0)))
    IN  IF r.exc = "" THEN r
        ELSE IF r.exc \in VolumeExcept THEN [exc |-> "", val |-> 0]
        ELSE r

----------------------------------------------------------------------------
(* datetime.strptime(text, "%Y-%m-%d") *)

IsLeap(y) == y % 4 = 0 /\ (y % 100 # 0 \/ y % 400 = 0)

DaysInMonth(y, m) ==
    CASE m \in {1, 3, 5, 7, 8, 10, 12} -> 31
      [] m \in {4, 6, 9, 11} -> 30
      [] OTHER -> IF IsLeap(y) THEN 29 ELSE 28

RECURSIVE DaysBeforeMonth(_, _)
DaysBeforeMonth(y, m) ==
    IF m = 1 THEN 0 ELSE DaysBeforeMonth(y, m - 1) + DaysInMonth(y, m - 1)

\* date.toordinal(): days since 0001-01-01, that day being 1
ToOrdinal(y, m, d) ==
    LET p == y - 1
    IN  p * 365 + (p \div 4) - (p \div 100) + (p \div 400)
          + DaysBeforeMonth(y, m) + d

\* %m: 1[0-2]|0[1-9]|[1-9]
MonthText(s) ==
    \/ Len(s) = 1 /\ s \in Digits \ {"0"}
    \/ Len(s) = 2 /\ Ch(s, 1) = "1" /\ Ch(s, 2) \in {"0", "1", "2"}
    \/ Len(s) = 2 /\ Ch(s, 1) = "0" /\ Ch(s, 2) \in Digits \ {"0"}

\* %d: 3[01]|[12]\d|0[1-9]|[1-9]| [1-9]
DayText(s) ==
    \/ Len(s) = 1 /\ s \in Digits \ {"0"}
    \/ Len(s) = 2 /\ Ch(s, 1) = "3" /\ Ch(s, 2) \in {"0", "1"}
    \/ Len(s) = 2 /\ Ch(s, 1) \in {"1", "2"} /\ Ch(s, 2) \in Digits
    \/ Len(s) = 2 /\ Ch(s, 1) \in {"0", " "} /\ Ch(s, 2) \in Digits \ {"0"}

FieldValue(s) == DecimalValue(IF Ch(s, 1) = " " THEN SubSeq(s, 2, Len(s)) ELSE s)

\* The whole text must match \d\d\d\d-%m-%d and name a day of the calendar.
\* Answers the ordinal of the day, or 0 where strptime raises ValueError.
Strptime(s) ==
    LET L == Len(s)
        p == IF L >= 7 /\ Ch(s, 7) = "-" THEN 7 ELSE 8
    IN  IF /\ L \in 8..10
           /\ AllDigits(SubSeq(s, 1, 4))
           /\ Ch(s, 5) = "-"
           /\ p < L
           /\ Ch(s, p) = "-"
           /\ MonthText(SubSeq(s, 6, p - 1))
           /\ DayText(SubSeq(s, p + 1, L))
        THEN LET y == DecimalValue(SubSeq(s, 1, 4))
                 m == FieldValue(SubSeq(s, 6, p - 1))
                 d == FieldValue(SubSeq(s, p + 1, L))
             IN  IF y >= 1 /\ d <= DaysInMonth(y, m)
                 THEN ToOrdinal(y, m, d)
                 ELSE 0
        ELSE 0

\* An aware datetime: the ordinal of its day and the second of that day.
\* datetime.strptime(...).replace(tzinfo=utc) is midnight of the day it names.
Midnight(ord) == [day |-> ord, sec |-> 0]

\* now + timedelta(days=days_filter)
PlusDays(t, days) == [day |-> t.day + days, sec |-> t.sec]

\* a > b on datetimes
After(a, b) == a.day > b.day \/ (a.day = b.day /\ a.sec > b.sec)

----------------------------------------------------------------------------
(* The records of a response *)

\* one element of a market's "events" list: a mapping, or some other value
EventData(slug, title, volume) ==
    [t |-> "dict", slug |-> slug, title |-> title, volume |-> volume]
NotAMapping == [t |-> "str", slug |-> Absent, title |-> Absent, volume |-> Absent]

\* the "events" value of a market: missing, a list, or a value that is no list
NoEvents == [t |-> "absent", items |-> << >>]
EventList(items) == [t |-> "list", items |-> items]
EventsDict == [t |-> "dict", items |-> << >>]

Market(id, question, volumeNum, endDateIso, slug, events) ==
    [t |-> "dict", id |-> id, question |-> question, volumeNum |-> volumeNum,
     endDateIso |-> endDateIso, slug |-> slug, events |-> events]

\* an element of the response that is no mapping
StrayRecord == [t |-> "str", id |-> Absent, question |-> Absent,
                volumeNum |-> Absent, endDateIso |-> Absent, slug |-> Absent,
                events |-> NoEvents]

----------------------------------------------------------------------------
(* Text formatting *)

DigitText(d) ==
    CASE d = 0 -> "0" [] d = 1 -> "1" [] d = 2 -> "2" [] d = 3 -> "3"
      [] d = 4 -> "4" [] d = 5 -> "5" [] d = 6 -> "6" [] d = 7 -> "7"
      [] d = 8 -> "8" [] d = 9 -> "9"

RECURSIVE NatText(_)
NatText(k) == IF k < 10 THEN DigitText(k) ELSE NatText(k \div 10) \o DigitText(k % 10)

\* the thousands of format spec "," : 1234567 is 1,234,567
RECURSIVE Thousands(_)
Thousands(k) ==
    IF k < 1000 THEN NatText(k)
    ELSE Thousands(k \div 1000) \o ","
           \o DigitText((k \div 100) % 10) \o DigitText((k \div 10) % 10)
           \o DigitText(k % 10)

\* f"${event.volume:,.2f}" of a whole volume
FormatVolume(volume) == "$" \o Thousands(volume) \o ".00"

\* f"{value}"
Text(v) ==
    CASE v.t = "str" -> v.s
      [] v.t = "num" -> NatText(v.n)
      [] v.t = "list" -> "[]"
      [] OTHER -> "None"

----------------------------------------------------------------------------
(* unique_events: a dict, which keeps its keys in insertion order *)

Keys(d) == {d[k].key : k \in 1..Len(d)}

Contains(d, key) == key \in Keys(d)

Lookup(d, key) == d[CHOOSE k \in 1..Len(d) : d[k].key = key].value

\* d[key] = value: a new key goes last, a known key keeps its place
SetItem(d, key, value) ==
    IF Contains(d, key)
    THEN [k \in 1..Len(d) |->
            IF d[k].key = key THEN [key |-> key, value |-> value] ELSE d[k]]
    ELSE Append(d, [key |-> key, value |-> value])

\* list(d.values())
Values(d) == [k \in 1..Len(d) |-> d[k].value]

\* a list is unhashable: `key in d` and d[key] = ... raise TypeError for it
Hashable(v) == v.t # "list"

----------------------------------------------------------------------------
(* process_events *)

Event(title, volume, end_date, url, slug) ==
    [title |-> title, volume |-> volume, end_date |-> end_date,
     url |-> url, slug |-> slug]

\* filter_date_limit = now + timedelta(days=days_filter)
FilterDateLimit(t, days) == PlusDays(t, days)

\* end_date >= filter_date_limit
AtOrBeyondLimit(end_date, limit) == After(end_date, limit) \/ end_date = limit

\* end_date > filter_date_limit: the market ends beyond the horizon
BeyondLimit(end_date, limit) == After(end_date, limit)

\* The end-date check of one market: "skip" (continue), "pass", or the
\* exception that leaves the loop.  strptime raises TypeError for a value
\* that is no str, and only ValueError is caught.
CheckEndDate(market, limit) ==
    LET end_date_iso == Get(market.endDateIso)
    IN  IF ~Truthy(end_date_iso) THEN "skip"
        ELSE IF end_date_iso.t # "str" THEN "TypeError"
        ELSE LET ord == Strptime(end_date_iso.s)
             IN  IF ord = 0 THEN "skip"
                 ELSE IF BeyondLimit(Midnight(ord), limit) THEN "skip"
                 ELSE "pass"

\* events_data and isinstance(events_data, list) and len(events_data) > 0
HasEventData(market) ==
    market.events.t = "list" /\ Len(market.events.items) > 0

\* Event(...) of the branch `if event_slug:`
GroupedEvent(event_slug, event_title, event_volume, end_date_iso) ==
    Event(IF Truthy(event_title) THEN event_title ELSE Str("Unknown Event"),
          event_volume, end_date_iso,
          "https://polymarket.com/event/" \o Text(event_slug),
          event_slug)

\* Event(...) of the fallback branch
UngroupedEvent(market, slug, vol, end_date_iso) ==
    Event(GetOr(market.question, Str("Unknown Market")),
          vol, end_date_iso,
          "https://polymarket.com/market/" \o Text(slug),
          slug)

\* a membership test that never finds the key
AlwaysNew(unique, key) == TRUE

\* `key not in unique_events` of both branches
IsNewKey(unique, key) == ~Contains(unique, key)

\* slug = market.get('slug') or market.get('id')
SlugOrId(market) ==
    IF Truthy(Get(market.slug)) THEN Get(market.slug) ELSE Get(market.id)

\* slug = market.get('slug')
FallbackSlug(market) == Get(market.slug)

\* The fallback branch of one market that passed the end-date check.
Fallback(market, unique) ==
    LET slug == FallbackSlug(market)
        vol == ParseVolume(market.volumeNum)
    IN  IF ~Truthy(slug) THEN [exc |-> "", unique |-> unique]
        ELSE IF ~Hashable(slug) THEN [exc |-> "TypeError", unique |-> unique]
        ELSE IF ~IsNewKey(unique, slug) THEN [exc |-> "", unique |-> unique]
        ELSE IF vol.exc # "" THEN [exc |-> vol.exc, unique |-> unique]
        ELSE [exc |-> "",
              unique |-> SetItem(unique, slug,
                  UngroupedEvent(market, slug, vol.val, market.endDateIso))]

\* a dict keyed by the market's id instead of the event's slug
KeyById(market, event_slug) == Get(market.id)

\* the key of unique_events in the branch `if event_slug:`
GroupKey(market, event_slug) == event_slug

\* a branch that adds the volume of every later market of the event
GroupedSumming(market, unique, event_slug, event_title, event_volume) ==
    LET key == GroupKey(market, event_slug)
        seen == Lookup(unique, key)
    IN  IF ~Hashable(key) THEN [exc |-> "TypeError", unique |-> unique]
        ELSE IF ~IsNewKey(unique, key)
        THEN [exc |-> "",
              unique |-> SetItem(unique, key,
                  [seen EXCEPT !.volume = @ + event_volume])]
        ELSE [exc |-> "",
              unique |-> SetItem(unique, key,
                  GroupedEvent(event_slug, event_title, event_volume,
                               market.endDateIso))]

\* The branch `if event_slug:` of one market that passed the end-date check.
Grouped(market, unique, event_slug, event_title, event_volume) ==
    LET key == GroupKey(market, event_slug)
    IN  IF ~Hashable(key) THEN [exc |-> "TypeError", unique |-> unique]
        ELSE IF ~IsNewKey(unique, key) THEN [exc |-> "", unique |-> unique]
        ELSE [exc |-> "",
              unique |-> SetItem(unique, key,
                  GroupedEvent(event_slug, event_title, event_volume,
                               market.endDateIso))]

\* One pass of the loop body over `market`: the exception that leaves the
\* loop ("" when none does) and unique_events after the pass.
LoopBody(market, unique, limit) ==
    IF market.t # "dict" THEN [exc |-> "AttributeError", unique |-> unique]
    ELSE LET checked == CheckEndDate(market, limit)
         IN  IF checked = "skip" THEN [exc |-> "", unique |-> unique]
             ELSE IF checked # "pass" THEN [exc |-> checked, unique |-> unique]
             ELSE IF ~HasEventData(market) THEN Fallback(market, unique)
             ELSE LET event == market.events.items[1]
                      event_volume == ParseVolume(event.volume)
                  IN  IF event.t # "dict"
                      THEN [exc |-> "AttributeError", unique |-> unique]
                      ELSE IF event_volume.exc # ""
                      THEN [exc |-> event_volume.exc, unique |-> unique]
                      ELSE IF Truthy(Get(event.slug))
                      THEN Grouped(market, unique, Get(event.slug),
                                   Get(event.title), event_volume.val)
                      ELSE Fallback(market, unique)

\* an insertion that puts an event before the events of its own volume
RECURSIVE InsertBeforeTies(_, _)
InsertBeforeTies(ranked, e) ==
    IF ranked = << >> THEN <<e>>
    ELSE IF Head(ranked).volume > e.volume
         THEN <<Head(ranked)>> \o InsertBeforeTies(Tail(ranked), e)
         ELSE <<e>> \o ranked

\* sorted(events, key=lambda x: x.volume, reverse=True): a stable sort, so
\* events of equal volume keep the order they have in `events`.
RECURSIVE InsertByVolume(_, _)
InsertByVolume(ranked, e) ==
    IF ranked = << >> THEN <<e>>
    ELSE IF Head(ranked).volume >= e.volume
         THEN <<Head(ranked)>> \o InsertByVolume(Tail(ranked), e)
         ELSE <<e>> \o ranked

RECURSIVE SortedByVolume(_)
SortedByVolume(events) ==
    IF events = << >> THEN << >>
    ELSE InsertByVolume(SortedByVolume(SubSeq(events, 1, Len(events) - 1)),
                        events[Len(events)])

----------------------------------------------------------------------------
(* display_events *)

IntText(k) == IF k < 0 THEN "-" \o NatText(0 - k) ELSE NatText(k)

\* events[:top_n]: a negative top_n counts from the end of the list
Slice(events, top_n) ==
    IF top_n >= 0
    THEN SubSeq(events, 1, IF top_n < Len(events) THEN top_n ELSE Len(events))
    ELSE SubSeq(events, 1, Len(events) + top_n)

TitleLimit == 60
TitleKept == 57

\* display_name of an event whose title is a str
DisplayName(title) ==
    IF Len(title) > TitleLimit THEN SubSeq(title, 1, TitleKept) \o "..." ELSE title

Row(event) ==
    [volume |-> FormatVolume(event.volume), end_date |-> event.end_date.s,
     name |-> DisplayName(event.title.s), url |-> event.url]

\* The rows of the table, or the exception len(display_name) raises for a
\* title that has no length (None, a number).
TableRows(events, top_n) ==
    LET shown == Slice(events, top_n)
    IN  IF \E k \in 1..Len(shown) : shown[k].title.t # "str"
        THEN [exc |-> "TypeError", rows |-> << >>]
        ELSE [exc |-> "", rows |-> [k \in 1..Len(shown) |-> Row(shown[k])]]

TableTitle(top_n) == "Top " \o IntText(top_n) \o " Polymarket Events (Volume)"

----------------------------------------------------------------------------
(* fetch_markets *)

\* what requests.get, raise_for_status and response.json can raise
RequestExceptions == {"ConnectionError", "Timeout", "HTTPError", "JSONDecodeError"}
FetchOutcomes == {"ok"} \cup RequestExceptions \cup {"ValueError"}

\* fetch_markets with `except ValueError` alone
FetchCaughtValueError == {"ValueError"}

\* the except clauses of fetch_markets
FetchCaught == RequestExceptions \cup {"ValueError"}

\* What fetch_markets returns when the request ends with `outcome` and the
\* body decodes to `body`: the exception that escapes, the list, the line
\* printed on the console.
FetchMarketsResult(outcome, body) ==
    IF outcome = "ok" THEN [exc |-> "", value |-> body, printed |-> << >>]
    ELSE IF outcome \notin FetchCaught
    THEN [exc |-> outcome, value |-> << >>, printed |-> << >>]
    ELSE IF outcome \in RequestExceptions
    THEN [exc |-> "", value |-> << >>, printed |-> <<"Error fetching markets">>]
    ELSE [exc |-> "", value |-> << >>,
          printed |-> <<"Error decoding JSON response">>]

----------------------------------------------------------------------------
(* Inputs *)

MaxMarkets == 2

Today == ToOrdinal(2024, 12, 30)
NowValues == {[day |-> Today, sec |-> s] : s \in {0, 43200}}
DaysFilters == {0, 2}
TopNs == {0 - 1, 0, 2, 5}
DefaultTop == 16

LongTitle == "Will the candidate of the incumbent party win the next general election?"

MarketPool ==
    { \* two markets of event e1 that differ in title, volume and end date
      Market(Str("1"), Str("Q1"), Num(100), Str("2024-12-30"), Str("m1"),
             EventList(<<EventData(Str("e1"), Str("Event 1"), Num(500))>>)),
      Market(Str("2"), Str("Q2"), Num(200), Str("2025-01-01"), Str("m2"),
             EventList(<<EventData(Str("e1"), Str(LongTitle), Num(300))>>)),
      \* a market with an empty events list
      Market(Str("3"), Str("Q3"), Num(300), Str("2024-12-30"), Str("m3"),
             EventList(<< >>)),
      \* an embedded event without a slug; the market's slug is e1
      Market(Str("4"), Str("Q4"), Str("300"), Str("2025-1-1"), Str("e1"),
             EventList(<<EventData(Absent, Str("No slug"), Num(900))>>)),
      \* event volumes that are no numbers, or missing
      Market(Str("5"), Str("Q5"), Num(50), Str("2024-12-30"), Str("m5"),
             EventList(<<EventData(Str("e2"), Absent, Str("abc"))>>)),
      Market(Str("6"), Str("Q6"), Num(70), Str("2024-12-30"), Absent,
             EventList(<<EventData(Str("e3"), Str(""), None)>>)),
      Market(Str("14"), Str("Q14"), Num(70), Str("2024-12-30"), Str("m14"),
             EventList(<<EventData(Str("e4"), Str("Event 4"), Absent)>>)),
      \* market volumes that are missing or no numbers
      Market(Str("7"), Absent, Absent, Str("2024-12-30"), Str("m7"), NoEvents),
      Market(Str("8"), None, None, Str("2024-12-30"), Str("m8"), EventsDict),
      Market(Str("15"), Str("Q15"), Str("n/a"), Str("2025-01-01"), Str("m15"),
             EventList(<<EventData(None, Str("Null slug"), ListVal)>>)),
      \* no key at all
      Market(Str("9"), Str("Q9"), Num(400), Str("2024-12-30"), Absent, NoEvents),
      \* end dates that are missing, empty, or name no day
      Market(Str("10"), Str("Q10"), Num(600), Absent, Str("m10"),
             EventList(<<EventData(Str("e10"), Str("Event 10"), Num(600))>>)),
      Market(Str("11"), Str("Q11"), Num(600), Str(""), Str("m11"), NoEvents),
      Market(Str("12"), Str("Q12"), Num(600), Str("2024-02-30"), Str("m12"), NoEvents),
      \* values of the wrong type
      Market(Str("13"), Str("Q13"), Num(10), Str("2024-12-30"), Str("m13"),
             EventList(<<NotAMapping>>)),
      StrayRecord }

MarketLists == UNION {[1..k -> MarketPool] : k \in 0..MaxMarkets}

----------------------------------------------------------------------------
(* The program *)

VARIABLES
    pc,             \* the call that runs next, "done" after the last one
    exc,            \* the exception that ended the run at pc, "" when none did
    now,            \* datetime.now(timezone.utc) of the run
    days_filter,    \* --days
    top_n,          \* --top
    markets,        \* the list process_events iterates over
    i,              \* index (from 1) of the market the loop handles next
    unique_events,  \* the dict of process_events
    sorted_events,  \* what process_events returned
    rows,           \* the rows of the table that was printed
    console         \* the lines printed

vars == <<pc, exc, now, days_filter, top_n, markets, i, unique_events,
          sorted_events, rows, console>>

\* A run of main, or a call of process_events on a list of records.
Init ==
    /\ pc \in {"fetch_markets", "process_events"}
    /\ exc = ""
    /\ now \in NowValues
    /\ days_filter \in DaysFilters
    /\ top_n = DefaultTop
    /\ markets \in (IF pc = "fetch_markets" THEN {<< >>} ELSE MarketLists)
    /\ i = 1
    /\ unique_events = << >>
    /\ sorted_events = << >>
    /\ rows = << >>
    /\ console = << >>

\* markets = client.fetch_markets(limit=args.limit)
FetchMarkets ==
    /\ pc = "fetch_markets" /\ exc = ""
    /\ \E outcome \in FetchOutcomes, body \in MarketLists :
          LET r == FetchMarketsResult(outcome, body)
          IN  /\ outcome # "ok" => body = << >>
              /\ pc' = IF r.exc = "" THEN "if_markets" ELSE pc
              /\ exc' = r.exc
              /\ markets' = r.value
              /\ console' = console \o r.printed
    /\ UNCHANGED <<now, days_filter, top_n, i, unique_events, sorted_events, rows>>

\* if markets: client.process_events(markets, args.days)
CallProcessEvents ==
    /\ pc = "if_markets"
    /\ markets # << >>
    /\ pc' = "process_events"
    /\ UNCHANGED <<exc, now, days_filter, top_n, markets, i, unique_events,
                   sorted_events, rows, console>>

\* else: print("No markets found.")
NoMarketsFound ==
    /\ pc = "if_markets"
    /\ markets = << >>
    /\ console' = Append(console, "No markets found.")
    /\ pc' = "done"
    /\ UNCHANGED <<exc, now, days_filter, top_n, markets, i, unique_events,
                   sorted_events, rows>>

\* one pass of `for market in markets`
ProcessMarket ==
    /\ pc = "process_events" /\ exc = ""
    /\ i <= Len(markets)
    /\ LET r == LoopBody(markets[i], unique_events,
                         FilterDateLimit(now, days_filter))
       IN  /\ unique_events' = r.unique
           /\ exc' = r.exc
           /\ i' = IF r.exc = "" THEN i + 1 ELSE i
    /\ UNCHANGED <<pc, now, days_filter, top_n, markets, sorted_events, rows, console>>

\* return sorted(unique_events.values(), key=lambda x: x.volume, reverse=True)
ReturnSorted ==
    /\ pc = "process_events" /\ exc = ""
    /\ i > Len(markets)
    /\ sorted_events' = SortedByVolume(Values(unique_events))
    /\ pc' = "display_events"
    /\ UNCHANGED <<exc, now, days_filter, top_n, markets, i, unique_events, rows,
                   console>>

\* client.display_events(sorted_events, top_n=args.top)
DisplayEvents ==
    /\ pc = "display_events" /\ exc = ""
    /\ \E n \in TopNs :
          LET r == TableRows(sorted_events, n)
          IN  /\ top_n' = n
              /\ exc' = r.exc
              /\ rows' = r.rows
              /\ pc' = IF r.exc = "" THEN "done" ELSE pc
              /\ console' = IF r.exc = "" THEN Append(console, TableTitle(n))
                            ELSE console
    /\ UNCHANGED <<now, days_filter, markets, i, unique_events, sorted_events>>

Next ==
    \/ FetchMarkets
    \/ CallProcessEvents
    \/ NoMarketsFound
    \/ ProcessMarket
    \/ ReturnSorted
    \/ DisplayEvents

Spec == Init /\ [][Next]_vars

----------------------------------------------------------------------------
(* What the properties speak of *)

\* now(UTC) + days_filter days
Limit == [day |-> now.day + days_filter, sec |-> now.sec]

\* indices of the markets the loop has passed
Handled == 1..(i - 1)

\* the day a market's end date names, 0 when it names none
EndDay(m) ==
    IF m.endDateIso.t = "str" THEN Strptime(m.endDateIso.s) ELSE 0

\* midnight of `day` is no later than the limit
NotAfterLimit(day) == day < Limit.day \/ (day = Limit.day /\ 0 <= Limit.sec)

WithinHorizon(m) == m.t = "dict" /\ EndDay(m) # 0 /\ NotAfterLimit(EndDay(m))

Embedded(m) == m.events.items[1]

\* the market carries embedded event data with a slug
HasEventSlug(m) ==
    /\ m.events.t = "list"
    /\ Len(m.events.items) > 0
    /\ Embedded(m).t = "dict"
    /\ Truthy(Embedded(m).slug)

KeyOf(m) == IF HasEventSlug(m) THEN Embedded(m).slug ELSE m.slug

\* the market passes the date filter and has a grouping key
Contributes(k) == WithinHorizon(markets[k]) /\ Truthy(KeyOf(markets[k]))

\* the first market of its key in the input
IsFirst(k) ==
    /\ Contributes(k)
    /\ \A j \in 1..(k - 1) :
          ~(Contributes(j) /\ KeyOf(markets[j]) = KeyOf(markets[k]))

IsNumber(v) == v.t = "num" \/ (v.t = "str" /\ v.s # "" /\ AllDigits(v.s))

NumberOrZero(v) ==
    IF v.t = "num" THEN v.n
    ELSE IF IsNumber(v) THEN DecimalValue(v.s)
    ELSE 0

\* the representative values of a market
RepVolume(m) == IF HasEventSlug(m) THEN Embedded(m).volume ELSE m.volumeNum

RepTitle(m) ==
    IF HasEventSlug(m)
    THEN IF Truthy(Embedded(m).title) THEN Embedded(m).title
         ELSE Str("Unknown Event")
    ELSE IF m.question.t = "absent" THEN Str("Unknown Market") ELSE m.question

RepUrl(m) ==
    IF HasEventSlug(m)
    THEN "https://polymarket.com/event/" \o KeyOf(m).s
    ELSE "https://polymarket.com/market/" \o KeyOf(m).s

\* process_events has returned
Returned == pc \in {"display_events", "done"}

\* some event of `events` has slug `key`
InList(events, key) == \E x \in 1..Len(events) : events[x].slug = key

EventOfSlug(events, key) ==
    events[CHOOSE x \in 1..Len(events) : events[x].slug = key]

Min(a, b) == IF a < b THEN a ELSE b
Max(a, b) == IF a > b THEN a ELSE b

----------------------------------------------------------------------------
(* C1 *)

\* C1: the list process_events returns holds no two events of the same slug,
\* also when a market's own slug equals the slug of another record's
\* embedded event.
C1_Dedup ==
    \A a, b \in 1..Len(sorted_events) :
        a # b => sorted_events[a].slug # sorted_events[b].slug

\* an embedded event and an ungrouped market of the same slug both passed
\* the date filter and the list was returned
C1_Witness ==
    /\ pc = "display_events"
    /\ \E a, b \in 1..Len(markets) :
          /\ Contributes(a) /\ Contributes(b)
          /\ HasEventSlug(markets[a]) /\ ~HasEventSlug(markets[b])
          /\ KeyOf(markets[a]) = KeyOf(markets[b])
          /\ InList(sorted_events, KeyOf(markets[a]))

----------------------------------------------------------------------------
(* C2 *)

\* C2: every event of the result has an end date that parses as YYYY-MM-DD
\* and is no later than now + days_filter days; every event stems from a
\* market with such a date (never from one whose end date is missing, empty
\* or unparseable); and the bound is inclusive: a market with a key that
\* ends at the limit or before is in the result.
C2_Horizon ==
    /\ \A x \in 1..Len(sorted_events) :
          /\ sorted_events[x].end_date.t = "str"
          /\ Strptime(sorted_events[x].end_date.s) # 0
          /\ NotAfterLimit(Strptime(sorted_events[x].end_date.s))
    /\ \A x \in 1..Len(unique_events) :
          \E k \in Handled :
              /\ Contributes(k)
              /\ KeyOf(markets[k]) = unique_events[x].value.slug
              /\ markets[k].endDateIso = unique_events[x].value.end_date
    /\ \A k \in Handled : Contributes(k) => Contains(unique_events, KeyOf(markets[k]))
    /\ Returned =>
          \A k \in Handled : Contributes(k) => InList(sorted_events, KeyOf(markets[k]))

\* the result holds an event that ends exactly at the limit, and the input
\* held a market without a usable end date
C2_Witness ==
    /\ pc = "display_events"
    /\ Limit.sec = 0
    /\ \E x \in 1..Len(sorted_events) :
          Strptime(sorted_events[x].end_date.s) = Limit.day
    /\ \E k \in 1..Len(markets) :
          markets[k].t = "dict" /\ Truthy(markets[k].slug) /\ EndDay(markets[k]) = 0

----------------------------------------------------------------------------
(* C3 *)

\* C3: the title, volume and end date of an event are those of the first
\* market of its key in the input that passed the date filter; no later
\* market of the key changes them, and volumes are not summed.
C3_FirstWins ==
    /\ \A k \in Handled :
          IsFirst(k) =>
              /\ Contains(unique_events, KeyOf(markets[k]))
              /\ LET e == Lookup(unique_events, KeyOf(markets[k]))
                 IN  /\ e.title = RepTitle(markets[k])
                     /\ e.volume = NumberOrZero(RepVolume(markets[k]))
                     /\ e.end_date = markets[k].endDateIso
    /\ Returned =>
          \A k \in Handled :
              IsFirst(k) =>
                  /\ InList(sorted_events, KeyOf(markets[k]))
                  /\ LET e == EventOfSlug(sorted_events, KeyOf(markets[k]))
                     IN  /\ e.title = RepTitle(markets[k])
                         /\ e.volume = NumberOrZero(RepVolume(markets[k]))
                         /\ e.end_date = markets[k].endDateIso

\* two markets of one event slug that differ in title, volume and end date
\* both passed the date filter and the list was returned
C3_Witness ==
    /\ pc = "display_events"
    /\ \E j, k \in 1..Len(markets) :
          /\ j < k
          /\ IsFirst(j) /\ Contributes(k)
          /\ HasEventSlug(markets[j]) /\ HasEventSlug(markets[k])
          /\ KeyOf(markets[j]) = KeyOf(markets[k])
          /\ RepTitle(markets[j]) # RepTitle(markets[k])
          /\ NumberOrZero(RepVolume(markets[j])) # NumberOrZero(RepVolume(markets[k]))
          /\ markets[j].endDateIso # markets[k].endDateIso
          /\ InList(sorted_events, KeyOf(markets[j]))

----------------------------------------------------------------------------
(* C4 *)

\* the keys of the markets the loop has passed that contribute
ContributedKeys == {KeyOf(markets[k]) : k \in {h \in Handled : Contributes(h)}}

\* C4: a market that passed the date filter is keyed by the slug of its
\* embedded event when it has one, and the event then carries the embedded
\* event's title and volume and the URL .../event/{slug}; otherwise it is
\* keyed by the market's own slug and the event carries the market's question
\* and volume and the URL .../market/{slug}; a record with neither slug
\* produces no event (its id is never a key).
C4_GroupingKey ==
    /\ \A k \in Handled :
          IsFirst(k) =>
              /\ Contains(unique_events, KeyOf(markets[k]))
              /\ LET e == Lookup(unique_events, KeyOf(markets[k]))
                 IN  /\ e.slug = KeyOf(markets[k])
                     /\ e.url = RepUrl(markets[k])
                     /\ e.title = RepTitle(markets[k])
                     /\ e.volume = NumberOrZero(RepVolume(markets[k]))
    /\ Keys(unique_events) = ContributedKeys
    /\ Len(unique_events) = Cardinality(ContributedKeys)
    /\ Returned => Len(sorted_events) = Cardinality(ContributedKeys)

\* the result holds an event keyed by an embedded event's slug, and the
\* input held a record with an id and neither slug that passed the filter
C4_Witness ==
    /\ pc = "display_events"
    /\ \E j, k \in 1..Len(markets) :
          /\ IsFirst(j) /\ HasEventSlug(markets[j])
          /\ InList(sorted_events, KeyOf(markets[j]))
          /\ WithinHorizon(markets[k])
          /\ ~Truthy(KeyOf(markets[k]))
          /\ Truthy(markets[k].id)

----------------------------------------------------------------------------
(* C5 *)

\* place of an event in the insertion order of unique_events
Place(e) == CHOOSE x \in 1..Len(unique_events) : unique_events[x].value = e

----------------------------------------------------------------------------
(* C6 *)

\* display_events printed its table
TablePrinted ==
    pc = "done" /\ console # << >> /\ console[Len(console)] = TableTitle(top_n)

\* display_events raised
DisplayRaised == pc = "display_events" /\ exc # ""

\* the first `count` rows are the first `count` events, in ranked order
RowsAreFirst(count) ==
    /\ Len(rows) = count
    /\ \A k \in 1..Len(rows) :
          /\ rows[k].url = sorted_events[k].url
          /\ rows[k].end_date = sorted_events[k].end_date.s
          /\ sorted_events[k].title.t = "str"

\* C6: for every ranked list and every integer topN the rows emitted are the
\* first topN entries in ranked order, min(topN, length) of them (none for a
\* topN below 0), the whole list when topN is at least its length.
C6_TopN ==
    (TablePrinted \/ DisplayRaised) =>
        RowsAreFirst(Max(0, Min(top_n, Len(sorted_events))))

----------------------------------------------------------------------------
(* C7 *)

\* C7: process_events never raises, and every record that passes the date
\* filter and has a key yields its event whatever else the batch holds.
C7_FailureIsolation ==
    /\ pc = "process_events" => exc = ""
    /\ Returned =>
          \A k \in 1..Len(markets) :
              Contributes(k) => InList(sorted_events, KeyOf(markets[k]))

----------------------------------------------------------------------------
(* C8 *)

\* fetch_markets printed an error
FetchFailed ==
    \E k \in 1..Len(console) :
        console[k] \in {"Error fetching markets", "Error decoding JSON response"}

\* C8: fetch_markets never raises; after a failed fetch the list is empty;
\* a run whose list is empty can only end, with no row emitted and no
\* exception; process_events of an empty list returns an empty list.
C8_EmptyInput ==
    /\ pc = "fetch_markets" => exc = ""
    /\ FetchFailed => markets = << >> /\ pc \in {"if_markets", "done"}
    /\ (pc = "if_markets" /\ markets = << >>) => ENABLED NoMarketsFound
    /\ (pc = "if_markets" /\ markets = << >>) => ~ENABLED CallProcessEvents
    /\ markets = << >> => rows = << >> /\ exc = "" /\ sorted_events = << >>

\* a run whose fetch failed has ended
C8_Witness ==
    /\ pc = "done"
    /\ FetchFailed
    /\ rows = << >>
    /\ console[Len(console)] = "No markets found."

----------------------------------------------------------------------------
(* C9 *)

\* a record whose shape makes the loop raise
Malformed(m) ==
    \/ m.t # "dict"
    \/ (Truthy(Get(m.endDateIso)) /\ m.endDateIso.t # "str")
    \/ (m.events.t = "list" /\ Len(m.events.items) > 0 /\ Embedded(m).t # "dict")
    \/ KeyOf(m).t = "list"

----------------------------------------------------------------------------
(* C10 *)

\* the fields of the dataclass Event
EventFields == {"title", "volume", "end_date", "url", "slug"}

\* the loop is about to pass a market whose key unique_events holds already
AtDuplicate ==
    /\ pc = "process_events" /\ exc = ""
    /\ i <= Len(markets)
    /\ Contributes(i)
    /\ Contains(unique_events, KeyOf(markets[i]))

=============================================================================
